---- MODULE Spec2Model ----
(***************************************************************************)
(* SeaSense AI trust engine: the duplicate registry and the trust scorer   *)
(* of SimplifiedAIPipeline (app/services/ai_pipeline_simple.py, the class  *)
(* every endpoint imports as AIPipeline), with the request handlers of     *)
(* app/api/endpoints/reports.py and trust_scores.py that drive it.         *)
(*                                                                         *)
(* Numbers.  The program computes in Python floats.  The model computes    *)
(* the same expressions in exact rational arithmetic: a score s is the     *)
(* integer s * SCALE, a component of a unit embedding e is e * EMB, a      *)
(* coordinate is counted in units of 1/max_distance degree.  Sqrt is only  *)
(* defined on perfect squares, so every value of the model is exact; the   *)
(* rounding of IEEE doubles is not modelled.                               *)
(*                                                                         *)
(* Scheduling.  All handlers are coroutines of one asyncio event loop.  A  *)
(* coroutine loses the loop only at an await that reaches a pending        *)
(* future; the coroutines the handlers await (process_citizen_report,      *)
(* calculate_trust_score and the helpers they await) never do, so a        *)
(* handler that has started runs to its end.  Handlers that are queued     *)
(* together start in any order.                                            *)
(***************************************************************************)
EXTENDS Integers, Sequences, FiniteSets, TLC

VARIABLES is_initialized, report_embeddings, calls, running, history, cleanups,
          score_in, score_out, detect_in, detect_out, priority_in, priority_out,
          classify_in, classify_out

vars == <<is_initialized, report_embeddings, calls, running, history, cleanups,
          score_in, score_out, detect_in, detect_out, priority_in, priority_out,
          classify_in, classify_out>>

\* the arguments and the return value of one call of _detect_duplicates_simple,
\* of determine_priority and of _classify_hazards_simple
units == <<detect_in, detect_out, priority_in, priority_out,
           classify_in, classify_out>>

(* ----------------------------- bounds --------------------------------- *)

MaxCalls == 3

MaxInFlight == 2

MaxCleanups == 1

MaxImages == 3

MaxPosts == 6

MaxEntries == 3

(* ----------------------------- numbers -------------------------------- *)

EMB == 3 * 10000

SCALE == (EMB * EMB) \div 50

Pct(p, x) == (p * x) \div 100

Min(a, b) == IF a < b THEN a ELSE b

Max(a, b) == IF a > b THEN a ELSE b

Clamp01(x) == Max(0, Min(SCALE, x))

Abs(x) == IF x < 0 THEN -x ELSE x

Sqrt(n) == CHOOSE r \in 0..n : r * r = n

RECURSIVE SumSeq(_)
SumSeq(s) == IF s = <<>> THEN 0 ELSE Head(s) + SumSeq(Tail(s))

RECURSIVE MaxSeq(_)
MaxSeq(s) == IF Len(s) = 1 THEN s[1] ELSE Max(Head(s), MaxSeq(Tail(s)))

\* Optional[T]: None is the empty tuple, a value v is <<v>>
None == <<>>

Some(v) == <<v>>

\* no call of the detector, of determine_priority or of the classifier is
\* being looked at on its own
NoUnits ==
    /\ detect_in = None /\ detect_out = None
    /\ priority_in = None /\ priority_out = None
    /\ classify_in = None /\ classify_out = None

(* ----------------------------- settings ------------------------------- *)

SIMILARITY_THRESHOLD == Pct(80, SCALE)

DEFAULT_TRUST_SCORE == Pct(50, SCALE)

\* line 285: 1.0 degree, in the coordinate unit of 1/5 degree
max_distance == 5

(* --------------------------- text features ---------------------------- *)

UpperCase == <<"A", "B", "C", "D", "E", "F", "G", "H", "I", "J", "K", "L", "M",
               "N", "O", "P", "Q", "R", "S", "T", "U", "V", "W", "X", "Y", "Z">>

LowerCase == <<"a", "b", "c", "d", "e", "f", "g", "h", "i", "j", "k", "l", "m",
               "n", "o", "p", "q", "r", "s", "t", "u", "v", "w", "x", "y", "z">>

LowerChar(c) ==
    IF \E i \in 1..26 : UpperCase[i] = c
    THEN LowerCase[CHOOSE i \in 1..26 : UpperCase[i] = c]
    ELSE c

RECURSIVE Lower(_)
Lower(text) ==
    IF Len(text) = 0 THEN ""
    ELSE LowerChar(SubSeq(text, 1, 1)) \o Lower(SubSeq(text, 2, Len(text)))

\* Python's `term in word`
Contains(term, word) ==
    \E i \in 1..(Len(word) - Len(term) + 1) :
        SubSeq(word, i, i + Len(term) - 1) = term

\* str.split(): the maximal runs of non-blank characters
RECURSIVE SplitFrom(_, _, _)
SplitFrom(text, i, word) ==
    IF i > Len(text)
    THEN IF word = "" THEN <<>> ELSE <<word>>
    ELSE IF SubSeq(text, i, i) = " "
         THEN (IF word = "" THEN <<>> ELSE <<word>>) \o SplitFrom(text, i + 1, "")
         ELSE SplitFrom(text, i + 1, word \o SubSeq(text, i, i))

Split(text) == SplitFrom(text, 1, "")

common_terms == <<"wave", "water", "sea", "ocean", "beach", "coast", "shore",
                  "storm", "wind", "rain", "debris", "pollution", "danger",
                  "emergency", "safety", "rescue", "help", "alert", "warning">>

ZeroEmbedding == [i \in 1..Len(common_terms) |-> 0]

_create_text_embedding_simple(words) ==
    LET counts == [i \in 1..Len(common_terms) |->
                     Cardinality({k \in 1..Len(words) :
                                    Contains(common_terms[i], Lower(words[k]))})]
        norm == Sqrt(SumSeq([i \in 1..Len(counts) |-> counts[i] * counts[i]]))
    IN  IF norm > 0
        THEN [i \in 1..Len(counts) |-> (counts[i] * EMB) \div norm]
        ELSE counts

\* a character outside ASCII is written as an escape of the form "\\u...."
NonAscii(text) == Contains("\\u", text)

_detect_language_simple(text) == IF NonAscii(text) THEN "hi" ELSE "en"

_process_text_simple(text, language) ==
    LET words == Split(Lower(text))
        detected_language == _detect_language_simple(text)
    IN  [embedding |-> _create_text_embedding_simple(words),
         detected_language |-> detected_language,
         language_confidence |->
             IF detected_language = language THEN Pct(90, SCALE) ELSE Pct(70, SCALE),
         word_count |-> Len(words)]

(* ------------------------- duplicate detection ------------------------ *)

\* np.dot of two unit embeddings
Dot(e1, e2) == SumSeq([i \in 1..Len(e1) |-> e1[i] * e2[i]]) \div ((EMB * EMB) \div SCALE)

\* a location similarity that reaches 0 at two degrees
_calculate_location_similarity_wide(loc1, loc2) ==
    LET lat_diff == Abs(loc1[1] - loc2[1])
        lon_diff == Abs(loc1[2] - loc2[2])
        sq == lat_diff * lat_diff + lon_diff * lon_diff
    IN  IF sq >= 4 * max_distance * max_distance
        THEN 0
        ELSE Max(0, SCALE - (Sqrt(sq) * SCALE) \div (2 * max_distance))

\* lines 276-291
_calculate_location_similarity(loc1, loc2) ==
    LET lat_diff == Abs(loc1[1] - loc2[1])
        lon_diff == Abs(loc1[2] - loc2[2])
        sq == lat_diff * lat_diff + lon_diff * lon_diff
    IN  IF sq >= max_distance * max_distance
        THEN 0
        ELSE Max(0, SCALE - (Sqrt(sq) * SCALE) \div max_distance)

\* a similarity that leaves the location out
combined_sim_text_only(embedding, location, existing_data) ==
    Pct(70, Dot(embedding, existing_data.embedding))

\* line 237
combined_sim(embedding, location, existing_data) ==
    Pct(70, Dot(embedding, existing_data.embedding))
      + Pct(30, _calculate_location_similarity(location, existing_data.location))


\* dict.items(): the registry is a Python dict, kept here as the sequence of
\* its entries in insertion order
HasId(registry, id) == \E k \in 1..Len(registry) : registry[k].id = id

\* self.report_embeddings[id] = data: a new key is appended, a key already
\* present keeps its place and takes the new value
DictSet(registry, id, data) ==
    LET entry == [id |-> id, embedding |-> data.embedding, location |-> data.location]
    IN  IF HasId(registry, id)
        THEN [k \in 1..Len(registry) |->
                IF registry[k].id = id THEN entry ELSE registry[k]]
        ELSE Append(registry, entry)

\* the comparison with >= in place of >
ReachesThreshold(sim) == sim >= SIMILARITY_THRESHOLD

\* line 239
ExceedsThreshold(sim) == sim > SIMILARITY_THRESHOLD

\* lines 226-241: the scan; one <<similarity, id>> pair per matching entry
RECURSIVE ScanRegistry(_, _, _)
ScanRegistry(registry, embedding, location) ==
    IF registry = <<>> THEN <<>>
    ELSE LET existing_data == Head(registry)
             sim == combined_sim(embedding, location, existing_data)
         IN  (IF ExceedsThreshold(sim)
              THEN <<[similarity |-> sim, id |-> existing_data.id]>>
              ELSE <<>>)
             \o ScanRegistry(Tail(registry), embedding, location)

\* the ids a report can carry, in the order sorted() gives them
ReportIds == <<"r1", "r2", "r3", "r4", "r5", "r6">>

IdRank(id) == CHOOSE k \in 1..Len(ReportIds) : ReportIds[k] = id

RECURSIVE SortedIds(_)
SortedIds(ids) ==
    IF ids = {} THEN <<>>
    ELSE LET first == CHOOSE a \in ids : \A b \in ids : IdRank(a) <= IdRank(b)
         IN  <<first>> \o SortedIds(ids \ {first})

\* the digest of the id list as the scan found it, without sorted()
ClusterIdAsFound(similar_report_ids) == <<"cluster", similar_report_ids>>

\* line 256: the digest is a function of the sorted id list alone
ClusterId(similar_report_ids) ==
    <<"cluster", SortedIds({similar_report_ids[k] : k \in 1..Len(similar_report_ids)})>>

\* schemas.py 192-198: the field constraints pydantic enforces on construction
ValidDuplicateDetectionResult(similarity_score, confidence) ==
    /\ 0 <= similarity_score /\ similarity_score <= SCALE
    /\ 0 <= confidence /\ confidence <= SCALE

\* a result whose confidence does not tell duplicates from other reports
DuplicateResultOneConfidence(matches) ==
    LET similarities == [k \in 1..Len(matches) |-> matches[k].similarity]
        similar_report_ids == [k \in 1..Len(matches) |-> matches[k].id]
        is_duplicate == Len(similarities) > 0
    IN  [is_duplicate |-> is_duplicate,
         similarity_score |-> IF is_duplicate THEN MaxSeq(similarities) ELSE 0,
         similar_reports |-> similar_report_ids,
         cluster_id |-> IF is_duplicate THEN ClusterId(similar_report_ids) ELSE None,
         confidence |-> Pct(90, SCALE)]

\* lines 243-274, less the insertion: the result built from the scan
DuplicateResult(matches) ==
    LET similarities == [k \in 1..Len(matches) |-> matches[k].similarity]
        similar_report_ids == [k \in 1..Len(matches) |-> matches[k].id]
        is_duplicate == Len(similarities) > 0
        max_similarity == IF is_duplicate THEN MaxSeq(similarities) ELSE 0
        confidence == IF is_duplicate THEN Pct(80, SCALE) ELSE Pct(90, SCALE)
    IN  IF ValidDuplicateDetectionResult(max_similarity, confidence)
        THEN [is_duplicate |-> is_duplicate,
              similarity_score |-> max_similarity,
              similar_reports |-> similar_report_ids,
              cluster_id |-> IF is_duplicate THEN ClusterId(similar_report_ids) ELSE None,
              confidence |-> confidence]
        ELSE [is_duplicate |-> FALSE,
              similarity_score |-> 0,
              similar_reports |-> <<>>,
              cluster_id |-> None,
              confidence |-> Pct(50, SCALE)]


(* --------------------------- image features --------------------------- *)

\* lines 144-155: the mock scores of image i (0-based); (i * 0.1) % 0.3 is
\* (i % 3) tenths
clip_score(i) == Pct(70, SCALE) + (i % 3) * Pct(10, SCALE)

quality_score(i) == Pct(80, SCALE) - (i % 3) * Pct(10, SCALE)

\* images is the number of images of the report
_process_images_simple(images) ==
    LET clip_scores == [k \in 1..images |-> clip_score(k - 1)]
        quality_scores == [k \in 1..images |-> quality_score(k - 1)]
    IN  [count |-> images,
         clip_scores |-> clip_scores,
         quality_scores |-> quality_scores,
         avg_clip_score |->
             IF images > 0 THEN Some(SumSeq(clip_scores) \div images) ELSE None,
         avg_quality_score |->
             IF images > 0 THEN Some(SumSeq(quality_scores) \div images) ELSE None]

\* dict.get(key, 0.0) on the two optional averages
GetOrZero(value) == IF value = None THEN 0 ELSE value[1]

(* -------------------------- hazard classifier ------------------------- *)

HazardType == <<"tsunami", "storm", "high_waves", "pollution", "debris",
                "unusual_current", "temperature_anomaly", "other">>

hazard_keywords ==
    <<  <<"tsunami", "giant wave", "wall of water", "earthquake wave">>,
        <<"storm", "cyclone", "hurricane", "typhoon", "wind", "rain">>,
        <<"high waves", "big waves", "large waves", "massive waves", "huge waves">>,
        <<"pollution", "oil spill", "contamination", "toxic", "chemicals">>,
        <<"debris", "garbage", "waste", "floating objects", "trash">>,
        <<"current", "undertow", "rip current", "strange current">>,
        <<"hot water", "cold water", "temperature", "warm", "cool">>,
        <<"hazard", "danger", "emergency", "alert", "warning">>  >>

\* lines 300-307: matched keywords over the size of the keyword list
hazard_score(h, text_lower) ==
    (Cardinality({k \in 1..Len(hazard_keywords[h]) :
                    Contains(hazard_keywords[h][k], text_lower)}) * SCALE)
        \div Len(hazard_keywords[h])

\* a classifier that keeps the last key that reaches the maximum
_classify_hazards_last_max(text) ==
    LET text_lower == Lower(text)
        hazard_scores == [h \in 1..Len(HazardType) |-> hazard_score(h, text_lower)]
        best == CHOOSE h \in 1..Len(HazardType) :
                   /\ \A g \in 1..Len(HazardType) : hazard_scores[g] <= hazard_scores[h]
                   /\ \A g \in (h + 1)..Len(HazardType) : hazard_scores[g] < hazard_scores[h]
    IN  [predicted_hazard |-> HazardType[best],
         confidence |-> hazard_scores[best],
         all_scores |-> hazard_scores]

\* lines 309-321: max() keeps the first key that reaches the maximum
_classify_hazards_simple(text) ==
    LET text_lower == Lower(text)
        hazard_scores == [h \in 1..Len(HazardType) |-> hazard_score(h, text_lower)]
        best == CHOOSE h \in 1..Len(HazardType) :
                   /\ \A g \in 1..Len(HazardType) : hazard_scores[g] <= hazard_scores[h]
                   /\ \A g \in 1..(h - 1) : hazard_scores[g] < hazard_scores[h]
    IN  [predicted_hazard |-> HazardType[best],
         confidence |-> hazard_scores[best],
         all_scores |-> hazard_scores]

(* ----------------------------- trust score ---------------------------- *)

\* a content score whose length term has no floor above 500 words
_score_content_credibility_unfloored(text_features, image_features, hazard_classification) ==
    LET word_count == text_features.word_count
        length_score ==
            IF 50 <= word_count /\ word_count <= 500 THEN SCALE
            ELSE IF word_count < 50 THEN (word_count * SCALE) \div 50
            ELSE SCALE - (word_count - 500) * (SCALE \div 1000)
        image_part ==
            IF image_features.count > 0
            THEN Pct(15, image_features.avg_quality_score[1])
                   + Pct(15, image_features.avg_clip_score[1])
            ELSE Pct(30, Pct(70, SCALE))
    IN  Clamp01(Pct(30, text_features.language_confidence) + Pct(20, length_score)
                  + Pct(20, hazard_classification.confidence) + image_part)

\* lines 434-465
_score_content_credibility_simple(text_features, image_features, hazard_classification) ==
    LET lang_confidence == text_features.language_confidence
        word_count == text_features.word_count
        length_score ==
            IF 50 <= word_count /\ word_count <= 500 THEN SCALE
            ELSE IF word_count < 50 THEN (word_count * SCALE) \div 50
            ELSE Max(Pct(50, SCALE), SCALE - (word_count - 500) * (SCALE \div 1000))
        image_part ==
            IF image_features.count > 0
            THEN Pct(15, GetOrZero(image_features.avg_quality_score))
                   + Pct(15, GetOrZero(image_features.avg_clip_score))
            ELSE Pct(30, Pct(70, SCALE))
    IN  Clamp01(Pct(30, lang_confidence) + Pct(20, length_score)
                  + Pct(20, hazard_classification.confidence) + image_part)

\* the source score without its final clamp
_score_source_reliability_unclamped(report) ==
    Pct(50, SCALE)
      + (IF report.reporter_reputation # None
         THEN Pct(40, report.reporter_reputation[1]) ELSE 0)
      + (IF report.device_info THEN Pct(10, SCALE) ELSE 0)
      + (IF report.accuracy # None
         THEN Pct(20, Max(0, SCALE - report.accuracy[1] * (SCALE \div 100)))
         ELSE 0)

\* lines 467-485; accuracy is in whole metres, None when absent
_score_source_reliability_simple(report) ==
    LET base == Pct(50, SCALE)
        reputation == IF report.reporter_reputation # None
                      THEN Pct(40, report.reporter_reputation[1]) ELSE 0
        device == IF report.device_info THEN Pct(10, SCALE) ELSE 0
        accuracy == IF report.accuracy # None
                    THEN Pct(20, Max(0, SCALE - report.accuracy[1] * (SCALE \div 100)))
                    ELSE 0
    IN  Clamp01(base + reputation + device + accuracy)

\* lines 487-504; the two boxes are in degrees, coordinates in 1/max_distance
coastal_regions == << <<8, 25, 68, 88>>, <<6, 15, 75, 85>> >>

_score_spatial_consistency_simple(report) ==
    LET lat == report.location[1]
        lon == report.location[2]
        is_coastal == \E k \in 1..Len(coastal_regions) :
            /\ coastal_regions[k][1] * max_distance <= lat
            /\ lat <= coastal_regions[k][2] * max_distance
            /\ coastal_regions[k][3] * max_distance <= lon
            /\ lon <= coastal_regions[k][4] * max_distance
    IN  IF is_coastal THEN Pct(80, SCALE) ELSE Pct(50, SCALE)

\* lines 506-513; social_media_posts is the number of posts supplied
_score_cross_verification_simple(report, social_media_posts) ==
    IF social_media_posts = 0
    THEN Pct(50, SCALE)
    ELSE Min(SCALE, (social_media_posts * SCALE) \div 5)

ResultKeys == {"text_features", "image_features", "duplicate_result",
               "hazard_classification"}

\* a score that keeps the default overall score and zeroes the sub-scores
DefaultTrustScoreZeroed ==
    [overall_score |-> DEFAULT_TRUST_SCORE,
     content_credibility |-> 0,
     source_reliability |-> 0,
     temporal_consistency |-> 0,
     spatial_consistency |-> 0,
     cross_verification |-> 0,
     confidence |-> Pct(50, SCALE),
     warnings |-> <<"Error in processing">>]

\* lines 417-432: the default score of the except branch
DefaultTrustScore ==
    [overall_score |-> DEFAULT_TRUST_SCORE,
     content_credibility |-> Pct(50, SCALE),
     source_reliability |-> Pct(50, SCALE),
     temporal_consistency |-> Pct(50, SCALE),
     spatial_consistency |-> Pct(50, SCALE),
     cross_verification |-> Pct(50, SCALE),
     confidence |-> Pct(50, SCALE),
     warnings |-> <<"Error in processing">>]

\* no penalty at all
duplicate_penalty_never(overall_score, duplicate_result) == overall_score

\* a penalty applied whether or not the report is a duplicate
duplicate_penalty_always(overall_score, duplicate_result) == Pct(70, overall_score)

\* lines 377-379
duplicate_penalty(overall_score, duplicate_result) ==
    IF duplicate_result.is_duplicate THEN Pct(70, overall_score) ELSE overall_score

\* lines 331-432; a key missing from processing_results raises KeyError
\* inside the try block
calculate_trust_score(report, processing_results, social_media_posts) ==
    IF ~(ResultKeys \subseteq DOMAIN processing_results)
    THEN DefaultTrustScore
    ELSE
    LET text_features == processing_results.text_features
        image_features == processing_results.image_features
        duplicate_result == processing_results.duplicate_result
        hazard_classification == processing_results.hazard_classification
        content_credibility ==
            _score_content_credibility_simple(text_features, image_features,
                                              hazard_classification)
        source_reliability == _score_source_reliability_simple(report)
        temporal_consistency == Pct(75, SCALE)
        spatial_consistency == _score_spatial_consistency_simple(report)
        cross_verification ==
            _score_cross_verification_simple(report, social_media_posts)
        weighted == Pct(30, content_credibility) + Pct(20, source_reliability)
                      + Pct(15, temporal_consistency) + Pct(15, spatial_consistency)
                      + Pct(20, cross_verification)
        penalised == duplicate_penalty(weighted, duplicate_result)
        warnings ==
            (IF duplicate_result.is_duplicate
             THEN <<"Report may be duplicate of existing reports">> ELSE <<>>)
            \o (IF text_features.word_count < 20
                THEN <<"Report description is very short">> ELSE <<>>)
            \o (IF image_features.count = 0
                THEN <<"No images provided">> ELSE <<>>)
    IN  [overall_score |-> Clamp01(penalised),
         content_credibility |-> content_credibility,
         source_reliability |-> source_reliability,
         temporal_consistency |-> temporal_consistency,
         spatial_consistency |-> spatial_consistency,
         cross_verification |-> cross_verification,
         confidence |-> Pct(80, SCALE),
         warnings |-> warnings]

\* a table that tests the score for high priority before the hazard category
determine_priority_high_first(trust_score, hazard_type) ==
    IF trust_score.overall_score > Pct(80, SCALE) THEN "high"
    ELSE IF hazard_type \in {"tsunami", "storm"} /\ trust_score.overall_score > Pct(70, SCALE)
    THEN "critical"
    ELSE IF trust_score.overall_score > Pct(50, SCALE) THEN "medium"
    ELSE "low"

\* a table whose bands include their lower limits
determine_priority_inclusive(trust_score, hazard_type) ==
    IF hazard_type \in {"tsunami", "storm"} /\ trust_score.overall_score >= Pct(70, SCALE)
    THEN "critical"
    ELSE IF trust_score.overall_score >= Pct(80, SCALE) THEN "high"
    ELSE IF trust_score.overall_score >= Pct(50, SCALE) THEN "medium"
    ELSE "low"

\* a table whose first row applies to every hazard category
determine_priority_any_hazard(trust_score, hazard_type) ==
    IF trust_score.overall_score > Pct(70, SCALE)
    THEN "critical"
    ELSE IF trust_score.overall_score > Pct(80, SCALE) THEN "high"
    ELSE IF trust_score.overall_score > Pct(50, SCALE) THEN "medium"
    ELSE "low"

\* reports.py 285-297
determine_priority(trust_score, hazard_type) ==
    IF hazard_type \in {"tsunami", "storm"} /\ trust_score.overall_score > Pct(70, SCALE)
    THEN "critical"
    ELSE IF trust_score.overall_score > Pct(80, SCALE) THEN "high"
    ELSE IF trust_score.overall_score > Pct(50, SCALE) THEN "medium"
    ELSE "low"


(* ------------------------ reports and requests ------------------------ *)

\* coordinates in units of 1/max_distance degree (latitude, longitude)
Chennai == <<13 * max_distance, 80 * max_distance>>

\* 0.2 degree north of Chennai
ChennaiNorth == <<13 * max_distance + 1, 80 * max_distance>>

Genoa == <<44 * max_distance + 2, 9 * max_distance - 1>>

\* 0.6 degree north of Chennai
ChennaiCoast == <<13 * max_distance + 3, 80 * max_distance>>

\* 1 degree north of Chennai
Nellore == <<14 * max_distance, 80 * max_distance>>

StormText == "Storm surge near the pier"

StormRainText == "Storm surge, storm tide, stormy rain, a rainstorm, rainy"

TsunamiText == "Tsunami approaching the harbour"

\* schemas.py lines 65-88: the fields of a report the pipeline reads
CitizenReport(id, description, hazard_type, location, images, reporter_reputation, device_info, accuracy, language) ==
    [id |-> id, description |-> description, hazard_type |-> hazard_type,
     location |-> location, images |-> images,
     reporter_reputation |-> reporter_reputation, device_info |-> device_info,
     accuracy |-> accuracy, language |-> language]

\* the reports clients send; the second and the fifth carry the same id.
\* Similarities: first and second 0.94, second and third 0.86, first and
\* third exactly 0.8, fourth and fifth 0.3 (both embeddings are zero); the
\* last two have the text of the first, 1 degree and 0.6 degree away from
\* it (0.7 and 0.82)
Reports == <<
    CitizenReport("r1", StormText, "storm", Chennai, 0, None, FALSE, None, "en"),
    CitizenReport("r2", StormText, "storm", ChennaiNorth, 1, Some(SCALE), TRUE, Some(0), "en"),
    CitizenReport("r3", StormRainText, "tsunami", ChennaiNorth, 2, Some(SCALE \div 2), TRUE, Some(150), "hi"),
    CitizenReport("r4", TsunamiText, "debris", Genoa, 0, None, TRUE, None, "en"),
    CitizenReport("r2", TsunamiText, "tsunami", Genoa, 3, Some(0), FALSE, Some(50), "en"),
    CitizenReport("r5", StormText, "storm", Nellore, 0, None, FALSE, None, "en"),
    CitizenReport("r6", StormText, "storm", ChennaiCoast, 1, None, TRUE, None, "en") >>

\* the features of each report of the list: process_citizen_report lines
\* 70, 73 and 79 compute them from the report alone
text_features == [k \in 1..Len(Reports) |->
    _process_text_simple(Reports[k].description, Reports[k].language)]

image_features == [k \in 1..Len(Reports) |-> _process_images_simple(Reports[k].images)]

hazard_classification == [k \in 1..Len(Reports) |->
    _classify_hazards_simple(Reports[k].description)]

\* a request: a report of the list, the router that takes it and the number
\* of social media posts sent with it (reports.py sends none); the second
\* report goes to the trust score router, the others to the reports router
Requests ==
    [report : {1, 3, 4, 5}, endpoint : {"reports"}, posts : {0}]
      \cup [report : {2}, endpoint : {"trust_scores"}, posts : {3}]

InFlight == {t \in 1..Len(calls) : calls[t].pc \notin {"done", "failed"}}

\* a detector that gives up the event loop between its scan and its insertion
SuspendsAnywhere(pc) == TRUE

\* the positions at which the event loop may run another coroutine: before
\* a handler starts and after it ends; "insert" is inside
\* _detect_duplicates_simple, whose body has no await
Suspends(pc) == pc \in {"queued", "done", "failed"}

Release(t, pc) == IF Suspends(pc) THEN 0 ELSE t

Event(op, t) == [op |-> op, call |-> t]

(* ------------------------------- state -------------------------------- *)

TypeOK ==
    /\ is_initialized \in BOOLEAN
    /\ running \in 0..MaxCalls
    /\ cleanups \in 0..MaxCleanups
    /\ Len(calls) <= MaxCalls
    /\ Len(history) <= 2 * MaxCalls + MaxCleanups

\* SimplifiedAIPipeline.__init__, lines 28-46; history is the record of the
\* scans, insertions and cleanups made on the registry, oldest first
Init ==
    /\ is_initialized = FALSE
    /\ report_embeddings = <<>>
    /\ calls = <<>>
    /\ running = 0
    /\ history = <<>>
    /\ cleanups = 0
    /\ score_in = None
    /\ score_out = None
    /\ NoUnits

\* initialize(), lines 48-59 (main.py lifespan, line 41)
Initialize ==
    /\ running = 0
    /\ ~is_initialized
    /\ is_initialized' = TRUE
    /\ UNCHANGED <<report_embeddings, calls, running, history, cleanups,
                   score_in, score_out>>
    /\ UNCHANGED units

\* a request reaches a router, or a background task is queued
\* (reports.py 61, 71, 134; trust_scores.py 49, 153)
Submit(request) ==
    /\ running = 0
    /\ Len(calls) < MaxCalls
    /\ Cardinality(InFlight) < MaxInFlight
    /\ calls' = Append(calls, [report |-> request.report,
                               endpoint |-> request.endpoint,
                               posts |-> request.posts,
                               pc |-> "queued",
                               matches |-> <<>>,
                               duplicate_result |-> None,
                               trust_score |-> None,
                               priority |-> None,
                               error |-> None])
    /\ UNCHANGED <<is_initialized, report_embeddings, running, history, cleanups,
                   score_in, score_out>>
    /\ UNCHANGED units

\* process_citizen_report lines 61-76 and _detect_duplicates_simple lines
\* 219-245: the initialisation check, the features, then the scan of the
\* registry
Scan(t) ==
    /\ running \in {0, t}
    /\ calls[t].pc = "queued"
    /\ IF ~is_initialized
       THEN /\ calls' = [calls EXCEPT
                           ![t].pc = "failed",
                           ![t].error = Some("AI Pipeline not initialized")]
            /\ running' = Release(t, "failed")
            /\ UNCHANGED history
       ELSE /\ calls' = [calls EXCEPT
                           ![t].pc = "insert",
                           ![t].matches =
                               ScanRegistry(report_embeddings,
                                            text_features[calls[t].report].embedding,
                                            Reports[calls[t].report].location)]
            /\ running' = Release(t, "insert")
            /\ history' = Append(history, Event("scan", t))
    /\ UNCHANGED <<is_initialized, report_embeddings, cleanups, score_in, score_out>>
    /\ UNCHANGED units

\* an insertion that evicts the oldest entry of a registry of two or more
StoreEmbeddingCapped(registry, k) ==
    DictSet(IF Len(registry) >= 2 /\ ~HasId(registry, Reports[k].id)
            THEN Tail(registry) ELSE registry,
            Reports[k].id,
            [embedding |-> text_features[k].embedding,
             location |-> Reports[k].location])

\* an insertion that skips a report whose embedding and location are
\* already stored under another id
StoreEmbeddingUnlessStored(registry, k) ==
    IF \E n \in 1..Len(registry) :
          /\ registry[n].embedding = text_features[k].embedding
          /\ registry[n].location = Reports[k].location
    THEN registry
    ELSE DictSet(registry, Reports[k].id,
                 [embedding |-> text_features[k].embedding,
                  location |-> Reports[k].location])

\* lines 247-251
StoreEmbedding(registry, k) ==
    DictSet(registry, Reports[k].id,
            [embedding |-> text_features[k].embedding,
             location |-> Reports[k].location])

\* a detector that also adds the new report to the results of the calls it
\* matched
StoreResultBothWays(cs, t) ==
    [u \in 1..Len(cs) |->
        IF u = t
        THEN [cs[t] EXCEPT !.pc = "score",
                           !.duplicate_result = Some(DuplicateResult(cs[t].matches))]
        ELSE IF /\ cs[u].duplicate_result # None
                /\ \E n \in 1..Len(cs[t].matches) :
                       cs[t].matches[n].id = Reports[cs[u].report].id
             THEN [cs[u] EXCEPT !.duplicate_result =
                     Some([cs[u].duplicate_result[1] EXCEPT
                             !.is_duplicate = TRUE,
                             !.similar_reports =
                                 Append(@, Reports[cs[t].report].id)])]
             ELSE cs[u]]

\* lines 253-274: the result handed back to process_citizen_report
StoreResult(cs, t) ==
    [cs EXCEPT ![t].pc = "score",
               ![t].duplicate_result = Some(DuplicateResult(cs[t].matches))]

\* lines 83-89: what process_citizen_report returns
ProcessingResults(call) ==
    [text_features |-> text_features[call.report],
     image_features |-> image_features[call.report],
     duplicate_result |-> call.duplicate_result[1],
     hazard_classification |-> hazard_classification[call.report]]

\* a scoring step whose failure reaches the handler of the endpoint
ScoreCallRaising(cs, t) ==
    [cs EXCEPT ![t].pc = "failed",
               ![t].error = Some("Internal server error")]

\* reports.py 243-246, trust_scores.py 52-56 and 156-158: the trust score,
\* and the priority the reports router derives from it
ScoreCall(cs, t) ==
    LET report == Reports[cs[t].report]
        trust_score == calculate_trust_score(report, ProcessingResults(cs[t]),
                                             cs[t].posts)
    IN  [cs EXCEPT ![t].pc = "done",
                   ![t].trust_score = Some(trust_score),
                   ![t].priority =
                       IF cs[t].endpoint = "reports"
                       THEN Some(determine_priority(trust_score, report.hazard_type))
                       ELSE None]

\* _detect_duplicates_simple lines 247-274, then the rest of the handler:
\* process_citizen_report lines 78-89 and the scoring of the endpoint, none
\* of which gives up the event loop
Insert(t) ==
    /\ running \in {0, t}
    /\ calls[t].pc = "insert"
    /\ report_embeddings' = StoreEmbedding(report_embeddings, calls[t].report)
    /\ history' = Append(history, Event("insert", t))
    /\ calls' = ScoreCall(StoreResult(calls, t), t)
    /\ running' = Release(t, "done")
    /\ UNCHANGED <<is_initialized, cleanups, score_in, score_out>>
    /\ UNCHANGED units

\* cleanup(), lines 515-526 (main.py lifespan, line 52)
Cleanup ==
    /\ running = 0
    /\ cleanups < MaxCleanups
    /\ report_embeddings' = <<>>
    /\ cleanups' = cleanups + 1
    /\ history' = Append(history, Event("cleanup", 0))
    /\ UNCHANGED <<is_initialized, calls, running, score_in, score_out>>
    /\ UNCHANGED units

Next ==
    \/ Initialize
    \/ \E request \in Requests : Submit(request)
    \/ \E t \in 1..Len(calls) : Scan(t)
    \/ \E t \in 1..Len(calls) : Insert(t)
    \/ Cleanup

Spec == Init /\ [][Next]_vars

(* ---------------- calculate_trust_score on its own inputs -------------- *)

WordCounts == {0, 19, 20, 49, 50, 500, 501, 1000, 1600}

HazardConfidences == {0, SCALE \div 4, SCALE}

\* the inputs of one call of calculate_trust_score: the fields of the
\* report the scorer reads, the features process_citizen_report can
\* return, and the key (if any) that is missing from processing_results
ScoreInputs ==
    [language_confidence : {Pct(90, SCALE), Pct(70, SCALE)},
     word_count : WordCounts,
     images : 0..MaxImages,
     is_duplicate : BOOLEAN,
     hazard_confidence : HazardConfidences,
     missing : {None, Some("text_features"), Some("duplicate_result")},
     reporter_reputation : {None, Some(0), Some(SCALE)},
     device_info : BOOLEAN,
     accuracy : {None, Some(0), Some(150)},
     location : {Chennai, Genoa},
     posts : 0..MaxPosts]

ScoreReport(in) ==
    CitizenReport("r1", StormText, "storm", in.location, in.images,
                  in.reporter_reputation, in.device_info, in.accuracy, "en")

ScoreResults(in) ==
    LET full ==
          [text_features |-> [embedding |-> ZeroEmbedding,
                              detected_language |-> "en",
                              language_confidence |-> in.language_confidence,
                              word_count |-> in.word_count],
           image_features |-> _process_images_simple(in.images),
           duplicate_result |->
               DuplicateResult(IF in.is_duplicate
                               THEN <<[similarity |-> SCALE, id |-> "r2"]>>
                               ELSE <<>>),
           hazard_classification |-> [predicted_hazard |-> "storm",
                                      confidence |-> in.hazard_confidence,
                                      all_scores |-> <<>>]]
    IN  [key \in ResultKeys \ {in.missing[k] : k \in 1..Len(in.missing)} |-> full[key]]

InitScore ==
    /\ is_initialized = TRUE
    /\ report_embeddings = <<>>
    /\ calls = <<>>
    /\ running = 0
    /\ history = <<>>
    /\ cleanups = 0
    /\ score_in \in {Some(in) : in \in ScoreInputs}
    /\ score_out = None
    /\ NoUnits

\* one call of calculate_trust_score, lines 331-432
CalculateTrustScore ==
    /\ score_in # None
    /\ score_out = None
    /\ score_out' = Some(calculate_trust_score(ScoreReport(score_in[1]),
                                               ScoreResults(score_in[1]),
                                               score_in[1].posts))
    /\ UNCHANGED <<is_initialized, report_embeddings, calls, running, history,
                   cleanups, score_in>>
    /\ UNCHANGED units

NextScore == CalculateTrustScore

SpecScore == InitScore /\ [][NextScore]_vars


(* ------------- _detect_duplicates_simple on its own inputs ------------- *)

\* lines 247-251: the registry entry the detector stores for a report
EntryOf(k) == [id |-> Reports[k].id, embedding |-> text_features[k].embedding,
               location |-> Reports[k].location]

\* lines 216-274: the result the detector returns for report k and the
\* registry it leaves
_detect_duplicates_simple(registry, k) ==
    [duplicate_result |->
         DuplicateResult(ScanRegistry(registry, text_features[k].embedding,
                                      Reports[k].location)),
     report_embeddings |-> StoreEmbedding(registry, k)]

\* the registries processing can build: entries of reports of the list under
\* pairwise different ids, in any order of insertion
Registries ==
    UNION {{[n \in 1..len |-> EntryOf(ks[n])] :
               ks \in {f \in [1..len -> 1..Len(Reports)] :
                          \A a, b \in 1..len :
                              a # b => Reports[f[a]].id # Reports[f[b]].id}} :
           len \in 0..MaxEntries}

DetectInputs == [registry : Registries, report : 1..Len(Reports)]

InitDetect ==
    /\ is_initialized = TRUE
    /\ report_embeddings = <<>>
    /\ calls = <<>>
    /\ running = 0
    /\ history = <<>>
    /\ cleanups = 0
    /\ score_in = None
    /\ score_out = None
    /\ detect_in \in {Some(in) : in \in DetectInputs}
    /\ detect_out = None
    /\ priority_in = None /\ priority_out = None
    /\ classify_in = None /\ classify_out = None

\* one call of _detect_duplicates_simple, lines 216-274
Detect ==
    /\ detect_in # None
    /\ detect_out = None
    /\ detect_out' = Some(_detect_duplicates_simple(detect_in[1].registry,
                                                    detect_in[1].report))
    /\ UNCHANGED <<is_initialized, report_embeddings, calls, running, history,
                   cleanups, score_in, score_out, detect_in, priority_in,
                   priority_out, classify_in, classify_out>>

NextDetect == Detect

SpecDetect == InitDetect /\ [][NextDetect]_vars


(* ------------------- determine_priority on its own inputs ---------------- *)

\* the overall scores at, next to and between the limits of reports.py
\* 290-295, with the two ends of the range
PriorityScores ==
    UNION {{Pct(p, SCALE) - 1, Pct(p, SCALE), Pct(p, SCALE) + 1} : p \in {50, 70, 80}}
        \cup {0, Pct(30, SCALE), Pct(75, SCALE), SCALE}

\* reports.py 285: a trust score and the hazard category of the report
PriorityInputs ==
    [overall_score : PriorityScores,
     hazard_type : {HazardType[n] : n \in 1..Len(HazardType)}]

InitPriority ==
    /\ is_initialized = TRUE
    /\ report_embeddings = <<>>
    /\ calls = <<>>
    /\ running = 0
    /\ history = <<>>
    /\ cleanups = 0
    /\ score_in = None
    /\ score_out = None
    /\ detect_in = None
    /\ detect_out = None
    /\ priority_in \in {Some(in) : in \in PriorityInputs}
    /\ priority_out = None
    /\ classify_in = None
    /\ classify_out = None

\* one call of determine_priority, reports.py 285-297
DeterminePriority ==
    /\ priority_in # None
    /\ priority_out = None
    /\ priority_out' = Some(determine_priority(
                               [overall_score |-> priority_in[1].overall_score],
                               priority_in[1].hazard_type))
    /\ UNCHANGED <<is_initialized, report_embeddings, calls, running, history,
                   cleanups, score_in, score_out, detect_in, detect_out,
                   priority_in, classify_in, classify_out>>

NextPriority == DeterminePriority

SpecPriority == InitPriority /\ [][NextPriority]_vars


(* ---------------- _classify_hazards_simple on its own inputs ------------- *)

\* phrases a description is put together from: two without any hazard
\* keyword, the others with keywords of one or two categories
ClassifyFragments == <<"dead fish ashore", "birds gone quiet", "tsunami",
                       "strong current", "debris and trash", "storm",
                       "danger alert">>

RECURSIVE TextOf(_, _)
TextOf(chosen, n) ==
    IF n > Len(ClassifyFragments) THEN ""
    ELSE (IF n \in chosen THEN " " \o ClassifyFragments[n] ELSE "")
             \o TextOf(chosen, n + 1)

\* line 293: the description handed to the classifier
ClassifyTexts ==
    {"Seen at noon:" \o TextOf(chosen, 1) : chosen \in SUBSET (1..Len(ClassifyFragments))}

InitClassify ==
    /\ is_initialized = TRUE
    /\ report_embeddings = <<>>
    /\ calls = <<>>
    /\ running = 0
    /\ history = <<>>
    /\ cleanups = 0
    /\ score_in = None
    /\ score_out = None
    /\ detect_in = None
    /\ detect_out = None
    /\ priority_in = None
    /\ priority_out = None
    /\ classify_in \in {Some(text) : text \in ClassifyTexts}
    /\ classify_out = None

\* one call of _classify_hazards_simple, lines 293-329
ClassifyHazards ==
    /\ classify_in # None
    /\ classify_out = None
    /\ classify_out' = Some(_classify_hazards_simple(classify_in[1]))
    /\ UNCHANGED <<is_initialized, report_embeddings, calls, running, history,
                   cleanups, score_in, score_out, detect_in, detect_out,
                   priority_in, priority_out, classify_in>>

NextClassify == ClassifyHazards

SpecClassify == InitClassify /\ [][NextClassify]_vars

(* ------------------------------ properties ----------------------------- *)

CallId(t) == Reports[calls[t].report].id

\* the detector of call t has returned
Returned(t) == calls[t].pc = "done"

MatchIds(t) == {calls[t].matches[n].id : n \in 1..Len(calls[t].matches)}

ScanPos(t) == CHOOSE k \in 1..Len(history) : history[k] = Event("scan", t)

InsertPos(t) == CHOOSE k \in 1..Len(history) : history[k] = Event("insert", t)

\* the similarity the detector computes between two reports of the list
SimilarityTable ==
    [k \in 1..Len(Reports) |-> [n \in 1..Len(Reports) |->
        combined_sim(text_features[k].embedding, Reports[k].location, EntryOf(n))]]

Similarity(k, n) == SimilarityTable[k][n]

Calls == 1..Len(calls)

\* no cleanup and no other insertion under the id of call i lies between the
\* insertion of call i and the scan of call j
Undisturbed(i, j) ==
    /\ InsertPos(i) < ScanPos(j)
    /\ \A k \in (InsertPos(i) + 1)..(ScanPos(j) - 1) :
          /\ history[k].op # "cleanup"
          /\ ~(history[k].op = "insert" /\ CallId(history[k].call) = CallId(i))

\* C1: the scan and the insertion of one detector call are one atomic unit:
\* no other scan, insertion or cleanup comes between them, so of two matching
\* reports the one whose detector ran last lists the other in similar_reports
C1_ScanInsertAtomic ==
    /\ \A k \in 1..Len(history) :
          (history[k].op = "scan" /\ k < Len(history))
             => history[k + 1] = Event("insert", history[k].call)
    /\ \A i, j \in Calls :
          ( /\ Returned(i) /\ Returned(j) /\ i # j
            /\ Similarity(calls[j].report, calls[i].report) > SIMILARITY_THRESHOLD
            /\ InsertPos(i) < InsertPos(j) )
             => /\ InsertPos(i) < ScanPos(j)
                /\ Undisturbed(i, j) => CallId(i) \in MatchIds(j)

\* two matching reports with different ids were queued together, the one
\* submitted last ran first, and the other lists it
C1_Witness ==
    \E i, j \in Calls :
        /\ i < j /\ Returned(i) /\ Returned(j)
        /\ ScanPos(j) < ScanPos(i)
        /\ CallId(i) # CallId(j)
        /\ Similarity(calls[i].report, calls[j].report) > SIMILARITY_THRESHOLD
        /\ CallId(j) \in MatchIds(i)

\* C2: of two reports with different ids, the same description and the same
\* location, processed one after the other, the second is flagged a
\* duplicate with a similarity of 0.99 or more and a cluster id
C2_IdenticalReportsFlagged ==
    \A i, j \in Calls :
        ( /\ Returned(i) /\ Returned(j)
          /\ CallId(i) # CallId(j)
          /\ Reports[calls[i].report].description = Reports[calls[j].report].description
          /\ Reports[calls[i].report].location = Reports[calls[j].report].location
          /\ InsertPos(i) + 1 = ScanPos(j) )
           => /\ calls[j].duplicate_result[1].is_duplicate
              /\ calls[j].duplicate_result[1].similarity_score >= Pct(99, SCALE)
              /\ calls[j].duplicate_result[1].cluster_id # None

InUnit(x) == 0 <= x /\ x <= SCALE

\* C3: the overall score and the five sub-scores of every TrustScore that
\* calculate_trust_score returns lie in [0, 1]
C3_TrustScoreBounded ==
    score_out # None =>
        /\ InUnit(score_out[1].overall_score)
        /\ InUnit(score_out[1].content_credibility)
        /\ InUnit(score_out[1].source_reliability)
        /\ InUnit(score_out[1].temporal_consistency)
        /\ InUnit(score_out[1].spatial_consistency)
        /\ InUnit(score_out[1].cross_verification)

\* a score of the normal path whose source terms add up to more than 1, and
\* whose source sub-score is 1
C3_Witness ==
    /\ score_out # None
    /\ score_in[1].missing = None
    /\ score_in[1].reporter_reputation = Some(SCALE)
    /\ score_in[1].device_info
    /\ score_in[1].accuracy = Some(0)
    /\ score_out[1].source_reliability = SCALE
    /\ score_out[1].warnings # <<"Error in processing">>

\* C4: between its scan and its insertion a call holds exactly the ids of
\* the registry entries whose similarity to its report is strictly above
\* 0.8, and the result it returns is a duplicate exactly when there is one,
\* with those ids as similar_reports
C4_MatchesAboveThreshold ==
    \A t \in Calls :
        /\ calls[t].pc = "insert" =>
              MatchIds(t) =
                 {report_embeddings[n].id : n \in
                    {m \in 1..Len(report_embeddings) :
                       combined_sim(text_features[calls[t].report].embedding,
                                    Reports[calls[t].report].location,
                                    report_embeddings[m]) > Pct(80, SCALE)}}
        /\ Returned(t) =>
              /\ calls[t].duplicate_result[1].is_duplicate = (MatchIds(t) # {})
              /\ {calls[t].duplicate_result[1].similar_reports[n] :
                     n \in 1..Len(calls[t].duplicate_result[1].similar_reports)}
                   = MatchIds(t)
              /\ Len(calls[t].duplicate_result[1].similar_reports)
                   = Cardinality(MatchIds(t))

\* a scan that found one entry above the threshold and left out an entry
\* whose similarity is exactly the threshold
C4_Witness ==
    \E t \in Calls :
        /\ calls[t].pc = "insert"
        /\ MatchIds(t) # {}
        /\ \E n \in 1..Len(report_embeddings) :
              /\ combined_sim(text_features[calls[t].report].embedding,
                              Reports[calls[t].report].location,
                              report_embeddings[n]) = SIMILARITY_THRESHOLD
              /\ report_embeddings[n].id \notin MatchIds(t)

\* C5: the similar reports of a call never contain the id of its own report
C5_NoSelfMatch == \A t \in Calls : CallId(t) \notin MatchIds(t)

\* the similar_reports of call t refer to insertions made before its scan
RefersToEarlierInsertions(t) ==
    \A n \in 1..Len(calls[t].duplicate_result[1].similar_reports) :
        \E u \in Calls :
            /\ CallId(u) = calls[t].duplicate_result[1].similar_reports[n]
            /\ \E k \in 1..Len(history) :
                  history[k] = Event("insert", u) /\ k < ScanPos(t)

EarlierInsertionsOnly == \A t \in Calls : Returned(t) => RefersToEarlierInsertions(t)

\* C6: every id in a returned result was inserted before that call's scan,
\* and no later step changes a result that was returned
C6_ResultsLookBack ==
    [][ /\ EarlierInsertionsOnly'
        /\ \A t \in Calls :
              Returned(t) => calls'[t].duplicate_result = calls[t].duplicate_result ]_vars

\* B was processed after A and matched it: B lists A, A's finished result
\* does not list B
C6_Witness ==
    \E a, b \in Calls :
        /\ calls[a].pc = "done" /\ Returned(b)
        /\ CallId(a) # CallId(b)
        /\ InsertPos(a) < ScanPos(b)
        /\ CallId(a) \in MatchIds(b)
        /\ \A n \in 1..Len(calls[a].duplicate_result[1].similar_reports) :
              calls[a].duplicate_result[1].similar_reports[n] # CallId(b)

\* C7: from the empty registry and with no cleanup, the registry holds one
\* entry per processed report
C7_OneEntryPerProcessedReport ==
    cleanups = 0 =>
        Len(report_embeddings) = Cardinality({t \in Calls : Returned(t)})

C9_AlwaysRecorded ==
    [][ \A t \in Calls :
           (calls[t].pc = "insert" /\ calls'[t].pc # "insert")
              => /\ HasId(report_embeddings', CallId(t))
                 /\ calls'[t].duplicate_result # None ]_vars

\* a duplicate and a unique report, both returned and both in the registry
C9_Witness ==
    \E t, u \in Calls :
        /\ Returned(t) /\ calls[t].duplicate_result[1].is_duplicate
        /\ Returned(u) /\ ~calls[u].duplicate_result[1].is_duplicate
        /\ HasId(report_embeddings, CallId(t))
        /\ HasId(report_embeddings, CallId(u))

\* C10: a call whose report id is already in the registry is rejected: it
\* never gets to the insertion
C10_KnownIdRejected ==
    \A t \in Calls :
        ~(calls[t].pc = "insert" /\ HasId(report_embeddings, CallId(t)))


\* the result of every call the detector can be given
DetectTable == [in \in DetectInputs |->
    _detect_duplicates_simple(in.registry, in.report).duplicate_result]

IdSet(ids) == {ids[n] : n \in 1..Len(ids)}

\* the duplicate results among them
DuplicateResults ==
    {result \in {DetectTable[in] : in \in DetectInputs} : result.is_duplicate}

\* C11: two duplicate results whose similar_reports hold the same set of
\* ids carry the same cluster_id, whatever the order the ids were found in,
\* and the cluster_id of a result is null exactly when it is not a duplicate
C11_ClusterIdOfIdSet ==
    detect_out # None =>
        LET r == detect_out[1].duplicate_result
        IN  /\ (r.cluster_id = None) = ~r.is_duplicate
            /\ r.is_duplicate =>
                  \A other \in DuplicateResults :
                      IdSet(other.similar_reports) = IdSet(r.similar_reports)
                         => other.cluster_id = r.cluster_id

\* a duplicate result, and another with the same ids found in another order
C11_Witness ==
    /\ detect_out # None
    /\ detect_out[1].duplicate_result.is_duplicate
    /\ detect_out[1].duplicate_result.cluster_id # None
    /\ \E other \in DuplicateResults :
          /\ IdSet(other.similar_reports)
               = IdSet(detect_out[1].duplicate_result.similar_reports)
          /\ other.similar_reports
               # detect_out[1].duplicate_result.similar_reports


\* the score was computed by the normal path of calculate_trust_score
NormalPath == score_out # None /\ score_in[1].missing = None

\* lines 362-374: the weighted combination of the five sub-scores
Combined(o) ==
    Pct(30, o.content_credibility) + Pct(20, o.source_reliability)
      + Pct(15, o.temporal_consistency) + Pct(15, o.spatial_consistency)
      + Pct(20, o.cross_verification)

\* C12: overall_score is the weighted combination of the five sub-scores,
\* multiplied by 0.7 exactly when the duplicate result is a duplicate, then
\* clamped to [0, 1]
C12_OverallFormula ==
    NormalPath =>
        score_out[1].overall_score =
            Clamp01(IF score_in[1].is_duplicate
                    THEN Pct(70, Combined(score_out[1]))
                    ELSE Combined(score_out[1]))

\* a duplicate whose overall score is the penalised combination, below the
\* combination itself
C12_Witness ==
    /\ NormalPath
    /\ score_in[1].is_duplicate
    /\ score_out[1].overall_score = Pct(70, Combined(score_out[1]))
    /\ score_out[1].overall_score < Combined(score_out[1])
    /\ score_in[1].posts > 0 /\ score_in[1].images > 0


\* C13: when scoring fails (a feature entry is missing from the processing
\* results) calculate_trust_score returns the default TrustScore: overall
\* score, every sub-score and confidence 0.5, and the one warning
\* 'Error in processing'
C13_DefaultOnFailure ==
    (score_out # None /\ score_in[1].missing # None) =>
        /\ score_out[1].overall_score = SCALE \div 2
        /\ score_out[1].content_credibility = SCALE \div 2
        /\ score_out[1].source_reliability = SCALE \div 2
        /\ score_out[1].temporal_consistency = SCALE \div 2
        /\ score_out[1].spatial_consistency = SCALE \div 2
        /\ score_out[1].cross_verification = SCALE \div 2
        /\ score_out[1].confidence = SCALE \div 2
        /\ score_out[1].warnings = <<"Error in processing">>

\* the duplicate result is missing for a report whose other scores would
\* not be 0.5: the default score is returned all the same
C13_Witness ==
    /\ score_out # None
    /\ score_in[1].missing = Some("duplicate_result")
    /\ score_in[1].reporter_reputation = Some(SCALE)
    /\ score_in[1].posts = MaxPosts
    /\ score_out[1].source_reliability = SCALE \div 2
    /\ score_out[1].warnings = <<"Error in processing">>


Finished(call) == call.pc \in {"done", "failed"}

BoundedTrustScore(call) ==
    /\ call.trust_score # None
    /\ call.trust_score[1].overall_score \in 0..SCALE

C15_PriorityTable ==
    priority_out # None =>
        LET score == priority_in[1].overall_score
            hazard == priority_in[1].hazard_type
            table == IF hazard \in {"tsunami", "storm"} /\ 10 * score > 7 * SCALE
                     THEN "critical"
                     ELSE IF 10 * score > 8 * SCALE THEN "high"
                     ELSE IF 10 * score > 5 * SCALE THEN "medium"
                     ELSE "low"
        IN  /\ priority_out[1] = table
            /\ 10 * score = 7 * SCALE => priority_out[1] = "medium"
            /\ 10 * score = 8 * SCALE => priority_out[1] \in {"critical", "medium"}
            /\ 10 * score = 5 * SCALE => priority_out[1] = "low"

\* a storm report with a score of exactly 0.7 was given medium priority
C15_Witness ==
    /\ priority_out = Some("medium")
    /\ priority_in[1].hazard_type = "storm"
    /\ 10 * priority_in[1].overall_score = 7 * SCALE

\* C16: with an overall score of 0.75 a tsunami report is critical and a
\* debris report is medium, 0.75 being above 0.5 and not above 0.8
C16_ScenarioDebrisMedium ==
    (priority_out # None /\ 100 * priority_in[1].overall_score = 75 * SCALE) =>
        /\ priority_in[1].hazard_type = "tsunami" => priority_out[1] = "critical"
        /\ priority_in[1].hazard_type = "debris" => priority_out[1] = "medium"

\* the debris report with a score of 0.75 has its priority
C16_Witness ==
    /\ priority_out = Some("medium")
    /\ priority_in[1].hazard_type = "debris"
    /\ 100 * priority_in[1].overall_score = 75 * SCALE

\* C16 as stated: at 0.75 the tsunami report is critical and the debris
\* report is high
C16_ScenarioDebrisHigh ==
    (priority_out # None /\ 100 * priority_in[1].overall_score = 75 * SCALE) =>
        /\ priority_in[1].hazard_type = "tsunami" => priority_out[1] = "critical"
        /\ priority_in[1].hazard_type = "debris" => priority_out[1] = "high"


\* the warnings of the five rules that apply to a scoring input and its
\* overall score, in the order of the rules
ApplicableWarnings(in, overall_score) ==
    (IF in.language_confidence < Pct(80, SCALE)
     THEN <<"Low confidence in language detection">> ELSE <<>>)
    \o (IF in.is_duplicate
        THEN <<"Report may be duplicate of existing reports">> ELSE <<>>)
    \o (IF overall_score < Pct(30, SCALE)
        THEN <<"Very low trust score - verify manually">> ELSE <<>>)
    \o (IF in.word_count < 20
        THEN <<"Report description is very short">> ELSE <<>>)
    \o (IF in.images = 0
        THEN <<"No images provided">> ELSE <<>>)

\* C17: a normally computed score carries one warning for each of the five
\* rules that applies (language confidence below 0.8, duplicate, overall
\* score below 0.3, fewer than 20 words, no images), in that order
C17_FiveWarningsInOrder ==
    NormalPath =>
        Len(score_out[1].warnings)
            = Len(ApplicableWarnings(score_in[1], score_out[1].overall_score))


\* every category scored 0 in the classification
NoKeywordFound(classification) ==
    \A h \in 1..Len(HazardType) : classification.all_scores[h] = 0

\* C18: when no hazard keyword of any category occurs in the text, the
\* classifier predicts the category 'other', with confidence 0
C18_NoKeywordGivesOther ==
    (classify_out # None /\ NoKeywordFound(classify_out[1])) =>
        /\ classify_out[1].predicted_hazard = "other"
        /\ classify_out[1].confidence = 0


\* the reports whose description contains none of the common_terms
NoTermReports ==
    {k \in 1..Len(Reports) :
        LET words == Split(Lower(Reports[k].description))
        IN  \A i \in 1..Len(common_terms) : \A w \in 1..Len(words) :
                ~Contains(common_terms[i], words[w])}

\* the text similarity and the combined similarity of a zero embedding
\* and a registry entry, either way round
ZeroSimilarity(embedding, location, entry) ==
    /\ Dot(embedding, entry.embedding) = 0
    /\ Dot(entry.embedding, embedding) = 0
    /\ combined_sim(embedding, location, entry)
          = Pct(30, _calculate_location_similarity(location, entry.location))
    /\ combined_sim(embedding, location, entry) <= Pct(30, SCALE)
    /\ ~ExceedsThreshold(combined_sim(embedding, location, entry))

\* C19: a report that matches no vocabulary term gets the zero embedding;
\* its text similarity to every registry entry, and that of any later
\* report to it, is 0; the combined similarity is then 0.3 times the
\* location similarity, never a match; the detector returns its normal
\* result, not the one of its error handler
C19_ZeroEmbeddingTextSimilarityZero ==
    detect_out # None =>
        LET k == detect_in[1].report
            registry == detect_in[1].registry
            embedding == text_features[k].embedding
            result == detect_out[1].duplicate_result
        IN  /\ k \in NoTermReports =>
                 /\ embedding = ZeroEmbedding
                 /\ \A n \in 1..Len(registry) :
                        ZeroSimilarity(embedding, Reports[k].location, registry[n])
                 /\ ~result.is_duplicate
                 /\ result.similarity_score = 0
                 /\ result.confidence = Pct(90, SCALE)
            /\ \A n \in 1..Len(registry) :
                   registry[n].embedding = ZeroEmbedding =>
                      /\ ZeroSimilarity(embedding, Reports[k].location, registry[n])
                      /\ \A m \in 1..Len(result.similar_reports) :
                             result.similar_reports[m] # registry[n].id

\* a report without vocabulary terms was compared with an entry of the same
\* text at the same place (combined similarity 0.3) and with an entry of
\* another text
C19_Witness ==
    /\ detect_out # None
    /\ detect_in[1].report \in NoTermReports
    /\ \E n, m \in 1..Len(detect_in[1].registry) :
          /\ detect_in[1].registry[n].embedding = ZeroEmbedding
          /\ combined_sim(ZeroEmbedding, Reports[detect_in[1].report].location,
                          detect_in[1].registry[n]) = Pct(30, SCALE)
          /\ detect_in[1].registry[m].embedding # ZeroEmbedding
    /\ ~detect_out[1].duplicate_result.is_duplicate

\* C19 as stated: the similarity the detector computes between a report
\* with the zero embedding and a registry entry, either way round, is 0
C19_ZeroEmbeddingSimilarityZero ==
    detect_out # None =>
        LET k == detect_in[1].report
            registry == detect_in[1].registry
            embedding == text_features[k].embedding
        IN  \A n \in 1..Len(registry) :
                (k \in NoTermReports \/ registry[n].embedding = ZeroEmbedding)
                    => combined_sim(embedding, Reports[k].location, registry[n]) = 0


\* the combined similarity of report k and the registry entry stored under id
SimilarityTo(registry, k, id) ==
    LET n == CHOOSE j \in 1..Len(registry) : registry[j].id = id
    IN  combined_sim(text_features[k].embedding, Reports[k].location, registry[n])

\* C20: the ids of similar_reports are sorted by their similarity to the
\* report, the most similar first, whatever the order of the registry
C20_OrderedBySimilarity ==
    detect_out # None =>
        LET ids == detect_out[1].duplicate_result.similar_reports
        IN  \A a, b \in 1..Len(ids) :
                a < b => SimilarityTo(detect_in[1].registry, detect_in[1].report, ids[a])
                           >= SimilarityTo(detect_in[1].registry, detect_in[1].report, ids[b])


\* the length term: 1 from 50 to 500 words, word_count/50 below, and
\* 1 - (word_count - 500)/1000 with a floor of 0.5 above
LengthScore(word_count) ==
    IF word_count < 50 THEN (word_count * SCALE) \div 50
    ELSE IF word_count > 500
         THEN Max(SCALE \div 2, SCALE - (word_count - 500) * (SCALE \div 1000))
         ELSE SCALE

\* the mean of the quality and of the alignment scores of n images
ImageMean(score(_), n) == SumSeq([k \in 1..n |-> score(k - 1)]) \div n

\* C21: content_credibility is 0.3 language confidence + 0.2 length score
\* + 0.2 hazard confidence + (0.15 mean image quality + 0.15 mean image
\* alignment with images, 0.21 without), clamped to [0,1]; the length
\* score meets 1 at 50 and at 500 words and stays at or above 0.5 beyond
C21_ContentCredibility ==
    NormalPath =>
        LET in == score_in[1]
            images == IF in.images > 0
                      THEN (15 * ImageMean(quality_score, in.images)) \div 100
                             + (15 * ImageMean(clip_score, in.images)) \div 100
                      ELSE (21 * SCALE) \div 100
            sum == (30 * in.language_confidence) \div 100
                     + (20 * LengthScore(in.word_count)) \div 100
                     + (20 * in.hazard_confidence) \div 100 + images
        IN  /\ score_out[1].content_credibility = Max(0, Min(SCALE, sum))
            /\ in.word_count = 50 => (in.word_count * SCALE) \div 50 = SCALE
            /\ in.word_count = 500 =>
                   SCALE - (in.word_count - 500) * (SCALE \div 1000) = SCALE
            /\ in.word_count > 500 => LengthScore(in.word_count) >= SCALE \div 2

\* a report of 1600 words with images: the length score is at its floor
C21_Witness ==
    /\ NormalPath
    /\ score_in[1].word_count = 1600
    /\ score_in[1].images > 0
    /\ score_in[1].language_confidence = Pct(70, SCALE)
    /\ score_in[1].hazard_confidence = SCALE
    /\ score_out[1].content_credibility
          = Pct(21, SCALE) + Pct(10, SCALE) + Pct(20, SCALE)
              + Pct(15, ImageMean(quality_score, score_in[1].images))
              + Pct(15, ImageMean(clip_score, score_in[1].images))


\* C22: temporal_consistency and spatial_consistency of a normally computed
\* score lie in [0.7, 0.8], whatever the coordinates of the report
C22_BaselineConstants ==
    NormalPath =>
        /\ 10 * score_out[1].temporal_consistency >= 7 * SCALE
        /\ 10 * score_out[1].temporal_consistency <= 8 * SCALE
        /\ 10 * score_out[1].spatial_consistency >= 7 * SCALE
        /\ 10 * score_out[1].spatial_consistency <= 8 * SCALE


\* C23: the confidence of a normally computed score is the mean of the
\* language confidence, the hazard confidence and the confidence of the
\* duplicate result, with the mean image quality as a fourth term when the
\* report has images
C23_ConfidenceIsMean ==
    NormalPath =>
        LET in == score_in[1]
            duplicate_confidence == IF in.is_duplicate THEN Pct(80, SCALE)
                                    ELSE Pct(90, SCALE)
            three == in.language_confidence + in.hazard_confidence
                       + duplicate_confidence
        IN  IF in.images > 0
            THEN 4 * score_out[1].confidence
                    = three + ImageMean(quality_score, in.images)
            ELSE 3 * score_out[1].confidence = three


\* the place of a category in the catalog of schemas.py 12-21
CatalogIndex(hazard) == CHOOSE h \in 1..Len(HazardType) : HazardType[h] = hazard

\* C24: the classifier predicts a category of maximal keyword score, the
\* first of the catalog among those that share the maximum; the confidence
\* is the score of that category, and all_scores has one value in [0,1]
\* for every category of the catalog
C24_FirstMaximalCategory ==
    classify_out # None =>
        LET result == classify_out[1]
            text_lower == Lower(classify_in[1])
            best == CatalogIndex(result.predicted_hazard)
        IN  /\ Len(result.all_scores) = Len(HazardType)
            /\ \A h \in 1..Len(HazardType) :
                  /\ result.all_scores[h] = hazard_score(h, text_lower)
                  /\ result.all_scores[h] \in 0..SCALE
                  /\ result.all_scores[h] <= result.all_scores[best]
                  /\ h < best => result.all_scores[h] < result.all_scores[best]
            /\ result.confidence = result.all_scores[best]

\* debris and other share the maximal score 0.4 and debris, declared
\* first, is predicted
C24_Witness ==
    /\ classify_out # None
    /\ classify_out[1].predicted_hazard = "debris"
    /\ classify_out[1].confidence = Pct(40, SCALE)
    /\ classify_out[1].all_scores[CatalogIndex("other")] = Pct(40, SCALE)
    /\ classify_out[1].all_scores[CatalogIndex("tsunami")] > 0


\* C25: in every result of the detector is_duplicate, a non-empty
\* similar_reports, a cluster id and a similarity_score above the threshold
\* 0.8 go together; a result that is not a duplicate has similarity_score
\* 0; the confidence is 0.8 for a duplicate and 0.9 otherwise
C25_ConsistentResult ==
    detect_out # None =>
        LET result == detect_out[1].duplicate_result
        IN  /\ result.is_duplicate = (Len(result.similar_reports) > 0)
            /\ result.is_duplicate = (result.cluster_id # None)
            /\ result.is_duplicate = (10 * result.similarity_score > 8 * SCALE)
            /\ ~result.is_duplicate => result.similarity_score = 0
            /\ 10 * result.confidence
                  = IF result.is_duplicate THEN 8 * SCALE ELSE 9 * SCALE

\* a duplicate found in a registry that also holds an entry at exactly the
\* threshold, which is not matched
C25_Witness ==
    /\ detect_out # None
    /\ detect_out[1].duplicate_result.is_duplicate
    /\ Len(detect_out[1].duplicate_result.similar_reports) = 1
    /\ \E n \in 1..Len(detect_in[1].registry) :
           10 * combined_sim(text_features[detect_in[1].report].embedding,
                             Reports[detect_in[1].report].location,
                             detect_in[1].registry[n]) = 8 * SCALE


\* C26: the overall score of a report flagged as a duplicate is at most
\* 0.7, and determine_priority gives it medium or low priority whatever
\* its hazard category
C26_DuplicateNeverUrgent ==
    (score_out # None /\ score_in[1].is_duplicate
        /\ score_in[1].missing # Some("duplicate_result")) =>
        /\ 10 * score_out[1].overall_score <= 7 * SCALE
        /\ \A h \in 1..Len(HazardType) :
               determine_priority(score_out[1], HazardType[h]) \in {"medium", "low"}

\* a duplicate whose combination is above 0.8: critical for a tsunami
\* without the penalty, medium with it
C26_Witness ==
    /\ NormalPath
    /\ score_in[1].is_duplicate
    /\ 10 * Combined(score_out[1]) > 8 * SCALE
    /\ determine_priority(score_out[1], "tsunami") = "medium"
    /\ determine_priority(score_out[1], "debris") = "medium"


\* the square of the coordinate distance of two locations
SquareDistance(loc1, loc2) ==
    (loc1[1] - loc2[1]) * (loc1[1] - loc2[1]) + (loc1[2] - loc2[2]) * (loc1[2] - loc2[2])

\* C27: an entry enters similar_reports only if its text similarity is
\* above 5/7 and its location similarity above 1/3, the two places less
\* than 2/3 degree apart; the same text 1 degree or more away is not
\* matched, and neither is the same place with a zero embedding
C27_BothSignalsNeeded ==
    detect_out # None =>
        LET k == detect_in[1].report
            registry == detect_in[1].registry
            matched == IdSet(detect_out[1].duplicate_result.similar_reports)
        IN  \A n \in 1..Len(registry) :
              LET text_sim == Dot(text_features[k].embedding, registry[n].embedding)
                  location_sim == _calculate_location_similarity(Reports[k].location,
                                                                 registry[n].location)
                  square == SquareDistance(Reports[k].location, registry[n].location)
              IN  /\ text_sim \in 0..SCALE
                  /\ location_sim \in 0..SCALE
                  /\ registry[n].id \in matched =>
                        /\ 7 * text_sim > 5 * SCALE
                        /\ 3 * location_sim > SCALE
                        /\ 9 * square < 4 * max_distance * max_distance
                  /\ (text_sim = SCALE /\ square >= max_distance * max_distance)
                        => registry[n].id \notin matched
                  /\ (text_features[k].embedding = ZeroEmbedding /\ square = 0)
                        => registry[n].id \notin matched

\* the registry holds the text of the report twice: 1 degree away, not
\* matched, and 0.6 degree away, matched
C27_Witness ==
    /\ detect_out # None
    /\ detect_in[1].report = 1
    /\ \E n, m \in 1..Len(detect_in[1].registry) :
          /\ detect_in[1].registry[n] = EntryOf(6)
          /\ detect_in[1].registry[m] = EntryOf(7)
    /\ detect_out[1].duplicate_result.similar_reports = <<"r6">>


\* C28: cross_verification does not fall when corroborating posts are
\* added: the score for a number of posts is at least the score of the
\* same report for any smaller number, 0.5 for none included
C28_PostsNeverLower ==
    NormalPath =>
        \A fewer \in 0..score_in[1].posts :
            _score_cross_verification_simple(ScoreReport(score_in[1]), fewer)
                <= score_out[1].cross_verification


\* schemas.py 33-38, from the least to the most urgent
PriorityRank(priority) ==
    CASE priority = "low" -> 1
      [] priority = "medium" -> 2
      [] priority = "high" -> 3
      [] priority = "critical" -> 4

\* C29: a tsunami or storm report is critical above 0.7, medium above 0.5
\* and up to 0.7, low up to 0.5, and never high; for every hazard category
\* the priority does not fall when the overall score rises
C29_NeverHighForCriticalHazards ==
    priority_out # None =>
        LET score == priority_in[1].overall_score
            hazard == priority_in[1].hazard_type
        IN  /\ hazard \in {"tsunami", "storm"} =>
                 /\ priority_out[1] # "high"
                 /\ priority_out[1] = (IF 10 * score > 7 * SCALE THEN "critical"
                                       ELSE IF 10 * score > 5 * SCALE THEN "medium"
                                       ELSE "low")
            /\ \A lower \in PriorityScores :
                   lower <= score =>
                      PriorityRank(determine_priority([overall_score |-> lower], hazard))
                          <= PriorityRank(priority_out[1])

\* a storm report just above 0.8, where another category would be high
C29_Witness ==
    /\ priority_out = Some("critical")
    /\ priority_in[1].hazard_type = "storm"
    /\ 10 * priority_in[1].overall_score > 8 * SCALE
    /\ determine_priority([overall_score |-> priority_in[1].overall_score],
                          "pollution") = "high"


\* a call refused by the pipeline has neither read nor written the registry
Refused(t) ==
    /\ calls[t].pc = "failed"
    /\ calls[t].error = Some("AI Pipeline not initialized")
    /\ \A k \in 1..Len(history) : history[k].call # t

\* C30: reports are processed and the registry is written only between
\* initialize() and cleanup(): a call made before initialize() is refused
\* and leaves the registry as it is, and after cleanup() no report is
\* scanned or recorded any more, so the registry stays empty
C30_OnlyBetweenInitializeAndCleanup ==
    /\ \A t \in Calls : calls[t].pc = "failed" => Refused(t)
    /\ ~is_initialized =>
           /\ report_embeddings = <<>>
           /\ \A k \in 1..Len(history) : history[k].op = "cleanup"
    /\ \A k, j \in 1..Len(history) :
           (k < j /\ history[k].op = "cleanup") => history[j].op = "cleanup"
    /\ cleanups > 0 => report_embeddings = <<>>

====
